---- MODULE Spec2Model ----
(***************************************************************************)
(* Model of src/resmoke/resmoke_suite.rs: the resmoke suite configuration  *)
(* (TestRoot, ResmokeSelector, ResmokeExecutor, ResmokeSuiteConfig), its   *)
(* serde-derived conversion from and to a YAML document, and the           *)
(* derivation with_new_tests.                                              *)
(*                                                                         *)
(* A YAML document is modelled after scanning, as its tree of nodes: a     *)
(* mapping is a function from its keys to nodes, and a key the document    *)
(* does not hold maps to the node Absent.  A typed value is a record with  *)
(* the fields of the Rust struct; Option<T> is a sequence of length 0      *)
(* (None) or 1 (Some).                                                     *)
(***************************************************************************)
EXTENDS Integers, Sequences, FiniteSets, TLC

VARIABLES text, run_tests, exclude_tests, store, calls, log

vars == <<text, run_tests, exclude_tests, store, calls, log>>

(***************************************************************************)
(* Bounds of the model.                                                    *)
(***************************************************************************)
\* the most test names a caller passes to with_new_tests, in its two lists
\* together
MaxLen == 2
\* the number of calls of from_str and with_new_tests one run makes; the run
\* ends with the last of them
MaxStore == 3

(***************************************************************************)
(* Option<T> and Result<T, Error>.                                         *)
(***************************************************************************)
None == <<>>

Some(x) == <<x>>

Ok(x) == [ok |-> TRUE, val |-> <<x>>]

Err == [ok |-> FALSE, val |-> <<>>]

(***************************************************************************)
(* YAML nodes.  kind is the node's resolved type; s holds the text of a    *)
(* string or boolean scalar, n the value of a number (a float in tenths),  *)
(* l the items of a sequence (or the flattened entries of an opaque        *)
(* mapping).                                                               *)
(***************************************************************************)
Node(kind, s, l, n) == [kind |-> kind, s |-> s, l |-> l, n |-> n]

Absent == Node("absent", "", <<>>, 0)

Null == Node("null", "", <<>>, 0)

Str(s) == Node("str", s, <<>>, 0)

SeqNode(l) == Node("seq", "", l, 0)

IntNode(n) == Node("int", "", <<>>, n)

FloatNode(n) == Node("float", "", <<>>, n)

BoolNode(b) == Node("bool", IF b THEN "true" ELSE "false", <<>>, 0)

MapNode(l) == Node("map", "", l, 0)

\* the keys of the three mappings of a suite document
TopKeys == {"matrix_suite", "description", "test_kind", "selector", "executor"}

SelectorKeys ==
    {"exclude_tags", "exclude_files", "exclude_with_any_tags", "group_size",
     "group_count_multiplier", "include_with_any_tags", "include_files",
     "include_tags", "root", "roots", "tag_file", "test"}

ExecutorKeys == {"archive", "hooks", "config", "fixture"}

(***************************************************************************)
(* Deserialization of one field, by the field's Rust type.  An Option      *)
(* field is None when its key is missing or null; a node of another kind   *)
(* than the type expects is an error.                                      *)
(***************************************************************************)
IsUnset(node) == node.kind \in {"absent", "null"}

DeOptString(node) ==
    IF IsUnset(node) THEN Ok(None)
    ELSE IF node.kind = "str" THEN Ok(Some(node.s))
    ELSE Err

DeOptVecString(node) ==
    IF IsUnset(node) THEN Ok(None)
    ELSE IF node.kind = "seq" THEN Ok(Some(node.l))
    ELSE Err

\* HashSet<String>: the items of the sequence, repeated items collapsing
DeOptHashSet(node) ==
    IF IsUnset(node) THEN Ok(None)
    ELSE IF node.kind = "seq" THEN Ok(Some({node.l[i] : i \in DOMAIN node.l}))
    ELSE Err

DeOptUsize(node) ==
    IF IsUnset(node) THEN Ok(None)
    ELSE IF node.kind = "int" THEN Ok(Some(node.n))
    ELSE Err

\* f64, kept in tenths: an integer scalar is accepted and widened
DeOptF64(node) ==
    IF IsUnset(node) THEN Ok(None)
    ELSE IF node.kind = "float" THEN Ok(Some(node.n))
    ELSE IF node.kind = "int" THEN Ok(Some(10 * node.n))
    ELSE Err

DeOptBool(node) ==
    IF IsUnset(node) THEN Ok(None)
    ELSE IF node.kind = "bool" THEN Ok(Some(node.s = "true"))
    ELSE Err

\* Option<Box<Value>>: any node is a Value and is kept as it is
DeOptValue(node) ==
    IF IsUnset(node) THEN Ok(None) ELSE Ok(Some(node))

\* Option<Vec<Value>>: the items of the sequence, each a Value
DeOptVecValue(node) ==
    IF IsUnset(node) THEN Ok(None)
    ELSE IF node.kind = "seq"
         THEN Ok(Some([i \in DOMAIN node.l |-> Str(node.l[i])]))
    ELSE Err

\* a required String: a missing key is an error
DeString(node) ==
    IF node.kind = "str" THEN Ok(node.s) ELSE Err

(***************************************************************************)
(* TestRoot is untagged: the variants are tried in the order they are      *)
(* declared, each against the selector's own keys (the field is            *)
(* flattened); a variant matches when its field is there with its type.    *)
(***************************************************************************)
\* mutant: the Roots variant is never tried
DeRootOnly(m) ==
    IF m["root"].kind = "str" THEN Ok([root |-> m["root"].s]) ELSE Err

\* mutant: the Roots variant is tried before the Root variant
DeRootsFirst(m) ==
    IF m["roots"].kind = "seq" THEN Ok([roots |-> m["roots"].l])
    ELSE IF m["root"].kind = "str" THEN Ok([root |-> m["root"].s])
    ELSE Err

DeTestRoot(m) ==
    IF m["root"].kind = "str" THEN Ok([root |-> m["root"].s])
    ELSE IF m["roots"].kind = "seq" THEN Ok([roots |-> m["roots"].l])
    ELSE Err

\* the flattened Option<TestRoot>: None when no variant matches
DeOptTestRoot(m) ==
    LET r == DeTestRoot(m)
    IN  IF r.ok THEN Ok(Some(r.val[1])) ELSE Ok(None)

DeResmokeSelector(m) ==
    LET exclude_tags == DeOptString(m["exclude_tags"])
        exclude_files == DeOptVecString(m["exclude_files"])
        exclude_with_any_tags == DeOptHashSet(m["exclude_with_any_tags"])
        group_size == DeOptUsize(m["group_size"])
        group_count_multiplier == DeOptF64(m["group_count_multiplier"])
        include_with_any_tags == DeOptVecString(m["include_with_any_tags"])
        include_files == DeOptVecString(m["include_files"])
        include_tags == DeOptString(m["include_tags"])
        test_root == DeOptTestRoot(m)
        tag_file == DeOptString(m["tag_file"])
        test == DeOptString(m["test"])
    IN  IF /\ exclude_tags.ok /\ exclude_files.ok /\ exclude_with_any_tags.ok
           /\ group_size.ok /\ group_count_multiplier.ok
           /\ include_with_any_tags.ok /\ include_files.ok /\ include_tags.ok
           /\ test_root.ok /\ tag_file.ok /\ test.ok
        THEN Ok([exclude_tags |-> exclude_tags.val[1],
                 exclude_files |-> exclude_files.val[1],
                 exclude_with_any_tags |-> exclude_with_any_tags.val[1],
                 group_size |-> group_size.val[1],
                 group_count_multiplier |-> group_count_multiplier.val[1],
                 include_with_any_tags |-> include_with_any_tags.val[1],
                 include_files |-> include_files.val[1],
                 include_tags |-> include_tags.val[1],
                 test_root |-> test_root.val[1],
                 tag_file |-> tag_file.val[1],
                 test |-> test.val[1]])
        ELSE Err

DeResmokeExecutor(m) ==
    LET archive == DeOptValue(m["archive"])
        hooks == DeOptVecValue(m["hooks"])
        config == DeOptValue(m["config"])
        fixture == DeOptValue(m["fixture"])
    IN  IF archive.ok /\ hooks.ok /\ config.ok /\ fixture.ok
        THEN Ok([archive |-> archive.val[1], hooks |-> hooks.val[1],
                 config |-> config.val[1], fixture |-> fixture.val[1]])
        ELSE Err

\* a document is [top, selector, executor]; the selector and the executor
\* are read only where the top-level key holds a mapping
DeResmokeSuiteConfig(doc) ==
    LET matrix_suite == DeOptBool(doc.top["matrix_suite"])
        description == DeOptString(doc.top["description"])
        test_kind == DeString(doc.top["test_kind"])
        selector == IF doc.top["selector"].kind = "map"
                    THEN DeResmokeSelector(doc.selector) ELSE Err
        executor == IF doc.top["executor"].kind = "map"
                    THEN DeResmokeExecutor(doc.executor) ELSE Err
    IN  IF /\ matrix_suite.ok /\ description.ok /\ test_kind.ok
           /\ selector.ok /\ executor.ok
        THEN Ok([matrix_suite |-> matrix_suite.val[1],
                 description |-> description.val[1],
                 test_kind |-> test_kind.val[1],
                 selector |-> selector.val[1],
                 executor |-> executor.val[1]])
        ELSE Err

\* FromStr for ResmokeSuiteConfig: the value serde_yaml::from_str returns
from_str(s) == DeResmokeSuiteConfig(s)

(***************************************************************************)
(* Serialization of one field.  Every Option field carries                 *)
(* skip_serializing_if = "Option::is_none": None emits no key.             *)
(***************************************************************************)
SerOptString(o) == IF o = None THEN Absent ELSE Str(o[1])

SerOptVecString(o) == IF o = None THEN Absent ELSE SeqNode(o[1])

\* the orders in which a HashSet may be iterated
Orders(S) ==
    {q \in [1..Cardinality(S) -> S] : \A e \in S : \E i \in DOMAIN q : q[i] = e}

\* HashSet<String>: its items in the order `order` the set is iterated in
SerOptHashSet(o, order) == IF o = None THEN Absent ELSE SeqNode(order)

SerOptUsize(o) == IF o = None THEN Absent ELSE IntNode(o[1])

SerOptF64(o) == IF o = None THEN Absent ELSE FloatNode(o[1])

SerOptBool(o) == IF o = None THEN Absent ELSE BoolNode(o[1])

SerOptValue(o) == IF o = None THEN Absent ELSE o[1]

SerOptVecValue(o) ==
    IF o = None THEN Absent ELSE SeqNode([i \in DOMAIN o[1] |-> o[1][i].s])

\* the flattened test_root: the variant's own key among the selector's keys
SerRootKey(o) ==
    IF o # None /\ "root" \in DOMAIN o[1] THEN Str(o[1].root) ELSE Absent

SerRootsKey(o) ==
    IF o # None /\ "roots" \in DOMAIN o[1] THEN SeqNode(o[1].roots) ELSE Absent

\* mutant: exclude_files lacks skip_serializing_if and is written as null
SerResmokeSelectorNoSkip(sel, order) ==
    [k \in SelectorKeys |->
        CASE k = "exclude_tags" -> SerOptString(sel.exclude_tags)
          [] k = "exclude_files" ->
                IF sel.exclude_files = None THEN Null
                ELSE SeqNode(sel.exclude_files[1])
          [] k = "exclude_with_any_tags" ->
                SerOptHashSet(sel.exclude_with_any_tags, order)
          [] k = "group_size" -> SerOptUsize(sel.group_size)
          [] k = "group_count_multiplier" -> SerOptF64(sel.group_count_multiplier)
          [] k = "include_with_any_tags" ->
                SerOptVecString(sel.include_with_any_tags)
          [] k = "include_files" -> SerOptVecString(sel.include_files)
          [] k = "include_tags" -> SerOptString(sel.include_tags)
          [] k = "root" -> SerRootKey(sel.test_root)
          [] k = "roots" -> SerRootsKey(sel.test_root)
          [] k = "tag_file" -> SerOptString(sel.tag_file)
          [] k = "test" -> SerOptString(sel.test)]

SerResmokeSelector(sel, order) ==
    [k \in SelectorKeys |->
        CASE k = "exclude_tags" -> SerOptString(sel.exclude_tags)
          [] k = "exclude_files" -> SerOptVecString(sel.exclude_files)
          [] k = "exclude_with_any_tags" ->
                SerOptHashSet(sel.exclude_with_any_tags, order)
          [] k = "group_size" -> SerOptUsize(sel.group_size)
          [] k = "group_count_multiplier" -> SerOptF64(sel.group_count_multiplier)
          [] k = "include_with_any_tags" ->
                SerOptVecString(sel.include_with_any_tags)
          [] k = "include_files" -> SerOptVecString(sel.include_files)
          [] k = "include_tags" -> SerOptString(sel.include_tags)
          [] k = "root" -> SerRootKey(sel.test_root)
          [] k = "roots" -> SerRootsKey(sel.test_root)
          [] k = "tag_file" -> SerOptString(sel.tag_file)
          [] k = "test" -> SerOptString(sel.test)]

SerResmokeExecutor(ex) ==
    [k \in ExecutorKeys |->
        CASE k = "archive" -> SerOptValue(ex.archive)
          [] k = "hooks" -> SerOptVecValue(ex.hooks)
          [] k = "config" -> SerOptValue(ex.config)
          [] k = "fixture" -> SerOptValue(ex.fixture)]

SerResmokeSuiteConfig(c, order) ==
    [top |-> [k \in TopKeys |->
                CASE k = "matrix_suite" -> SerOptBool(c.matrix_suite)
                  [] k = "description" -> SerOptString(c.description)
                  [] k = "test_kind" -> Str(c.test_kind)
                  [] k = "selector" -> MapNode(<<>>)
                  [] k = "executor" -> MapNode(<<>>)],
     selector |-> SerResmokeSelector(c.selector, order),
     executor |-> SerResmokeExecutor(c.executor)]

\* ToString for ResmokeSuiteConfig: the documents serde_yaml::to_string may
\* return, one for each order the HashSet is iterated in
to_string(c) ==
    {SerResmokeSuiteConfig(c, order) :
        order \in IF c.selector.exclude_with_any_tags = None THEN {<<>>}
                  ELSE Orders(c.selector.exclude_with_any_tags[1])}

(***************************************************************************)
(* ResmokeSuiteConfig::with_new_tests.                                     *)
(***************************************************************************)
\* mutant: the new entries are put before the original ones
with_new_tests_prepend(self, run, exclude) ==
    LET excluded_files == IF self.selector.exclude_files # None
                          THEN self.selector.exclude_files[1] ELSE <<>>
    IN  IF exclude # None
        THEN [self EXCEPT !.selector.exclude_files = Some(exclude[1] \o excluded_files)]
        ELSE IF run # None
        THEN [self EXCEPT !.selector.exclude_files = None,
                          !.selector.test_root = Some([roots |-> run[1]])]
        ELSE self

\* mutant: run mode keeps the original exclude_files
with_new_tests_keep_excludes(self, run, exclude) ==
    LET excluded_files == IF self.selector.exclude_files # None
                          THEN self.selector.exclude_files[1] ELSE <<>>
    IN  IF exclude # None
        THEN [self EXCEPT !.selector.exclude_files = Some(excluded_files \o exclude[1])]
        ELSE IF run # None
        THEN [self EXCEPT !.selector.test_root = Some([roots |-> run[1]])]
        ELSE self

\* mutant: the run list is looked at before the exclude list
with_new_tests_run_first(self, run, exclude) ==
    LET excluded_files == IF self.selector.exclude_files # None
                          THEN self.selector.exclude_files[1] ELSE <<>>
    IN  IF run # None
        THEN [self EXCEPT !.selector.exclude_files = None,
                          !.selector.test_root = Some([roots |-> run[1]])]
        ELSE IF exclude # None
        THEN [self EXCEPT !.selector.exclude_files = Some(excluded_files \o exclude[1])]
        ELSE self

\* mutant: an absent exclude list is taken as an empty one
with_new_tests_default_empty(self, run, exclude) ==
    LET excluded_files == IF self.selector.exclude_files # None
                          THEN self.selector.exclude_files[1] ELSE <<>>
    IN  IF exclude # None
        THEN [self EXCEPT !.selector.exclude_files = Some(excluded_files \o exclude[1])]
        ELSE IF run # None
        THEN [self EXCEPT !.selector.exclude_files = None,
                          !.selector.test_root = Some([roots |-> run[1]])]
        ELSE [self EXCEPT !.selector.exclude_files = Some(excluded_files)]

\* mutant: run mode also drops include_files, and the copy loses the description
with_new_tests_clear_more(self, run, exclude) ==
    LET excluded_files == IF self.selector.exclude_files # None
                          THEN self.selector.exclude_files[1] ELSE <<>>
    IN  IF exclude # None
        THEN [self EXCEPT !.selector.exclude_files = Some(excluded_files \o exclude[1]),
                          !.description = None]
        ELSE IF run # None
        THEN [self EXCEPT !.selector.exclude_files = None,
                          !.selector.include_files = None,
                          !.selector.test_root = Some([roots |-> run[1]])]
        ELSE self

\* mutant: an empty list of files to exclude leaves exclude_files unset
with_new_tests_skip_empty(self, run, exclude) ==
    LET excluded_files == IF self.selector.exclude_files # None
                          THEN self.selector.exclude_files[1] ELSE <<>>
    IN  IF exclude # None
        THEN [self EXCEPT !.selector.exclude_files =
                    IF excluded_files \o exclude[1] = <<>> THEN None
                    ELSE Some(excluded_files \o exclude[1])]
        ELSE IF run # None
        THEN [self EXCEPT !.selector.exclude_files = None,
                          !.selector.test_root = Some([roots |-> run[1]])]
        ELSE self

with_new_tests(self, run, exclude) ==
    LET config == self
        updated_selector == self.selector
        excluded_files == IF updated_selector.exclude_files # None
                          THEN updated_selector.exclude_files[1] ELSE <<>>
        files_to_exclude == excluded_files \o exclude[1]
        new_selector ==
            IF exclude # None
            THEN [updated_selector EXCEPT
                    !.exclude_files = Some(files_to_exclude)]
            ELSE IF run # None
            THEN [updated_selector EXCEPT
                    !.exclude_files = None,
                    !.test_root = Some([roots |-> run[1]])]
            ELSE updated_selector
    IN  [config EXCEPT !.selector = new_selector]

(***************************************************************************)
(* The inputs: the documents a caller hands to from_str and the lists it   *)
(* hands to with_new_tests.                                                *)
(***************************************************************************)
\* the test names of the unit tests' lists
Tests == {"test0.js", "test1.js"}

Lists(S, n) == UNION {[1..k -> S] : k \in 0..n}

\* the entries of an optional list, none when it is absent
Entries(o) == IF o = None THEN <<>> ELSE o[1]

\* an optional list of test names of at most MaxLen entries
ArgLists == {None} \cup {Some(l) : l \in Lists(Tests, MaxLen)}

\* the other keys of a selector: none of them, or each with a value of its type
RestNone == [k \in SelectorKeys |-> Absent]

RestAll ==
    [k \in SelectorKeys |->
        CASE k = "exclude_tags" -> Null
          [] k = "exclude_with_any_tags" -> SeqNode(<<"slow", "flaky", "slow">>)
          [] k = "group_size" -> IntNode(4)
          [] k = "group_count_multiplier" -> IntNode(2)
          [] k = "include_with_any_tags" -> SeqNode(<<"auth">>)
          [] k = "include_files" -> SeqNode(<<"jstests/core/*.js">>)
          [] k = "include_tags" -> Str("requires_auth")
          [] k = "tag_file" -> Str("tags.yml")
          [] k = "test" -> Str("jstests/core/a.js")
          [] OTHER -> Absent]

TopNone ==
    [k \in TopKeys |->
        CASE k = "test_kind" -> Str("js_test")
          [] k \in {"selector", "executor"} -> MapNode(<<>>)
          [] OTHER -> Absent]

TopAll ==
    [k \in TopKeys |->
        CASE k = "test_kind" -> Str("js_test")
          [] k = "matrix_suite" -> BoolNode(TRUE)
          [] k = "description" -> Str("auth tests")
          [] OTHER -> MapNode(<<>>)]

ExecutorNone == [k \in ExecutorKeys |-> Absent]

\* the executor of the unit tests' document, with hooks and a null archive
ExecutorAll ==
    [k \in ExecutorKeys |->
        CASE k = "archive" -> Null
          [] k = "hooks" -> SeqNode(<<"CleanEveryN">>)
          [] k = "config" -> Str("value")
          [] k = "fixture" -> MapNode(<<"class", "MyFixture", "num_nodes", "3">>)]

SelectorDoc(rest, files, root, roots) ==
    [k \in SelectorKeys |->
        CASE k = "exclude_files" -> files
          [] k = "root" -> root
          [] k = "roots" -> roots
          [] OTHER -> rest[k]]

\* documents with the required keys alone: no selector key at all, a root
\* with exclude_files, and both a root and roots
SelectorDocs ==
    {[top |-> TopNone, selector |-> SelectorDoc(RestNone, t[1], t[2], t[3]),
      executor |-> ExecutorNone] :
        t \in {<<Absent, Absent, Absent>>,
               <<SeqNode(<<"jstests/auth/repl.js">>), Str("roots.txt"), Absent>>,
               <<Absent, Str("roots.txt"),
                 SeqNode(<<"jstests/auth/*.js", "jstests/core/*.js">>)>>}}

\* a document with every key of every mapping but root
FullDoc ==
    [top |-> TopAll,
     selector |-> SelectorDoc(RestAll,
                    SeqNode(<<"jstests/auth/repl.js", "jstests/core/add1.js">>),
                    Absent, SeqNode(<<"jstests/auth/*.js", "jstests/core/*.js">>)),
     executor |-> ExecutorAll]

\* the unit tests' document: roots, exclude_files, config and fixture
TestDoc ==
    [top |-> TopNone,
     selector |-> SelectorDoc(RestNone,
                    SeqNode(<<"jstests/auth/repl.js", "jstests/core/add1.js">>),
                    Absent, SeqNode(<<"jstests/auth/*.js">>)),
     executor |-> [ExecutorAll EXCEPT !["archive"] = Absent, !["hooks"] = Absent]]

\* the unit tests' document with one key removed or given another type
BrokenDocs ==
    {[TestDoc EXCEPT !.top["test_kind"] = Absent],
     [TestDoc EXCEPT !.top["selector"] = Absent, !.selector = RestNone],
     [TestDoc EXCEPT !.top["selector"] = Str("all"), !.selector = RestNone],
     [TestDoc EXCEPT !.top["executor"] = Absent, !.executor = ExecutorNone],
     [TestDoc EXCEPT !.top["matrix_suite"] = SeqNode(<<"true">>)],
     [TestDoc EXCEPT !.selector["include_files"] = Str("jstests/core/a.js")],
     [TestDoc EXCEPT !.selector["group_size"] = Str("four")],
     [TestDoc EXCEPT !.selector["exclude_files"] = Str("jstests/auth/repl.js")],
     [TestDoc EXCEPT !.selector["roots"] = Str("jstests/auth/*.js")],
     [TestDoc EXCEPT !.selector["root"] = SeqNode(<<"roots.txt">>)],
     [TestDoc EXCEPT !.executor["hooks"] = Str("CleanEveryN")]}

Docs == SelectorDocs \cup {TestDoc, FullDoc} \cup BrokenDocs

(***************************************************************************)
(* The state: the text a caller holds, the lists it passes, the            *)
(* configurations constructed so far (store), the call that constructed    *)
(* or failed to construct each (calls), and the texts logged by error!.    *)
(***************************************************************************)
Init ==
    /\ text \in Docs
    /\ run_tests \in ArgLists
    /\ exclude_tests \in ArgLists
    /\ Len(Entries(run_tests)) + Len(Entries(exclude_tests)) <= MaxLen
    /\ store = <<>>
    /\ calls = <<>>
    /\ log = <<>>

\* ResmokeSuiteConfig::from_str(text)
FromStr ==
    /\ Len(calls) < MaxStore
    /\ LET resmoke_suite_config == from_str(text)
       IN  IF resmoke_suite_config.ok
           THEN /\ store' = Append(store, resmoke_suite_config.val[1])
                /\ calls' = Append(calls, [op |-> "from_str", doc |-> text,
                                           ret |-> Len(store) + 1])
                /\ UNCHANGED log
           ELSE /\ log' = Append(log, text)
                /\ calls' = Append(calls, [op |-> "from_str", doc |-> text,
                                           ret |-> 0])
                /\ UNCHANGED store
    /\ UNCHANGED <<text, run_tests, exclude_tests>>

\* a mutant of WithNewTests: the selector is updated in place, then cloned
WithNewTestsInPlace(i) ==
    /\ Len(calls) < MaxStore
    /\ LET config == with_new_tests(store[i], run_tests, exclude_tests)
       IN  /\ store' = Append([store EXCEPT ![i] = config], config)
           /\ calls' = Append(calls, [op |-> "with_new_tests", self |-> i,
                                      ret |-> Len(store) + 1])
    /\ UNCHANGED <<text, run_tests, exclude_tests, log>>

\* store[i].with_new_tests(run_tests, exclude_tests)
WithNewTests(i) ==
    /\ Len(calls) < MaxStore
    /\ store' = Append(store, with_new_tests(store[i], run_tests, exclude_tests))
    /\ calls' = Append(calls, [op |-> "with_new_tests", self |-> i,
                               ret |-> Len(store) + 1])
    /\ UNCHANGED <<text, run_tests, exclude_tests, log>>

\* text = store[i].to_string()
ToStringOf(i) ==
    /\ Len(calls) < MaxStore
    /\ text' \in to_string(store[i])
    /\ UNCHANGED <<run_tests, exclude_tests, store, calls, log>>

Next ==
    \/ FromStr
    \/ \E i \in DOMAIN store : WithNewTests(i)
    \/ \E i \in DOMAIN store : ToStringOf(i)

Spec == Init /\ [][Next]_vars

(***************************************************************************)
(* Properties of with_new_tests, stated of every call the run has made:    *)
(* calls[k] constructed store[calls[k].ret] from store[calls[k].self]      *)
(* with the lists run_tests and exclude_tests.                             *)
(***************************************************************************)
IsDerivation(k) == calls[k].op = "with_new_tests"

Before(k) == store[calls[k].self]

After(k) == store[calls[k].ret]

\* the call that constructed store[i]
Maker(i) == CHOOSE k \in DOMAIN calls : calls[k].ret = i

\* C1: in exclude mode (an exclude list given, no run list) the result's
\* exclude_files is present and holds the original entries in their order,
\* then every entry of the exclude list in its order, duplicates kept; so
\* every entry of the exclude list is contained in it.
C1_ExcludeModeAppends ==
    \A k \in DOMAIN calls :
        (IsDerivation(k) /\ exclude_tests # None /\ run_tests = None) =>
            LET old == Entries(Before(k).selector.exclude_files)
                new == After(k).selector.exclude_files
                given == exclude_tests[1]
            IN  /\ new # None
                /\ Len(new[1]) = Len(old) + Len(given)
                /\ \A j \in 1..Len(old) : new[1][j] = old[j]
                /\ \A j \in 1..Len(given) : new[1][Len(old) + j] = given[j]
                /\ \A j \in 1..Len(given) :
                        \E m \in 1..Len(new[1]) : new[1][m] = given[j]

\* C1 witness: [repl.js, add1.js] excluded already, [test0.js, test0.js] given
C1_Witness ==
    \E k \in DOMAIN calls :
        /\ IsDerivation(k) /\ run_tests = None
        /\ exclude_tests = Some(<<"test0.js", "test0.js">>)
        /\ Before(k).selector.exclude_files
                = Some(<<"jstests/auth/repl.js", "jstests/core/add1.js">>)
        /\ After(k).selector.exclude_files
                = Some(<<"jstests/auth/repl.js", "jstests/core/add1.js",
                         "test0.js", "test0.js">>)

\* C2: in run mode (a run list given, no exclude list) the result's
\* exclude_files is absent and its test_root is the Roots variant holding
\* exactly the run list, whatever both were before.
C2_RunModeReplaces ==
    \A k \in DOMAIN calls :
        (IsDerivation(k) /\ run_tests # None /\ exclude_tests = None) =>
            /\ After(k).selector.exclude_files = None
            /\ After(k).selector.test_root # None
            /\ DOMAIN After(k).selector.test_root[1] = {"roots"}
            /\ After(k).selector.test_root[1].roots = run_tests[1]

\* C2 witness: exclude_files present and test_root a Root before the call
C2_Witness ==
    \E k \in DOMAIN calls :
        /\ IsDerivation(k) /\ exclude_tests = None
        /\ run_tests = Some(<<"test1.js", "test0.js">>)
        /\ Before(k).selector.exclude_files = Some(<<"jstests/auth/repl.js">>)
        /\ Before(k).selector.test_root = Some([root |-> "roots.txt"])
        /\ After(k).selector.test_root = Some([roots |-> <<"test1.js", "test0.js">>])

C4_IdentityMode ==
    \A k \in DOMAIN calls :
        (IsDerivation(k) /\ run_tests = None /\ exclude_tests = None) =>
            After(k) = Before(k)

\* C4 witness: an identity derivation of a configuration with no exclude_files
C4_Witness ==
    \E k \in DOMAIN calls :
        /\ IsDerivation(k) /\ run_tests = None /\ exclude_tests = None
        /\ Before(k).selector.exclude_files = None
        /\ After(k).selector.exclude_files = None
        /\ After(k).selector.test_root = Some([root |-> "roots.txt"])

\* the selector's fields other than exclude_files and test_root
OtherSelectorFields ==
    {"exclude_tags", "exclude_with_any_tags", "group_size",
     "group_count_multiplier", "include_with_any_tags", "include_files",
     "include_tags", "tag_file", "test"}

\* C5: every derivation leaves matrix_suite, description, test_kind and
\* executor, and every selector field but exclude_files and test_root, as
\* they were; exclude mode leaves test_root as it was too.
C5_Frame ==
    \A k \in DOMAIN calls :
        IsDerivation(k) =>
            /\ After(k).matrix_suite = Before(k).matrix_suite
            /\ After(k).description = Before(k).description
            /\ After(k).test_kind = Before(k).test_kind
            /\ After(k).executor = Before(k).executor
            /\ \A f \in OtherSelectorFields :
                    After(k).selector[f] = Before(k).selector[f]
            /\ exclude_tests # None =>
                    After(k).selector.test_root = Before(k).selector.test_root

\* C5 witness: exclude mode on a configuration with every field set and
\* Roots of two entries
C5_Witness ==
    \E k \in DOMAIN calls :
        /\ IsDerivation(k) /\ exclude_tests = Some(<<"test0.js", "test1.js">>)
        /\ Before(k).description = Some("auth tests")
        /\ Before(k).selector.include_files = Some(<<"jstests/core/*.js">>)
        /\ Before(k).selector.test_root
                = Some([roots |-> <<"jstests/auth/*.js", "jstests/core/*.js">>])
        /\ After(k).selector.test_root = Before(k).selector.test_root
        /\ After(k).selector.exclude_files # Before(k).selector.exclude_files

\* C10: exclude mode always leaves exclude_files present, of the length of
\* the original entries plus the given ones, and two exclude derivations in
\* a row give what one derivation with the two lists joined gives.
C10_ExcludeComposes ==
    \A k \in DOMAIN calls :
        (IsDerivation(k) /\ exclude_tests # None /\ run_tests = None) =>
            /\ After(k).selector.exclude_files # None
            /\ Len(After(k).selector.exclude_files[1])
                    = Len(Entries(Before(k).selector.exclude_files))
                        + Len(exclude_tests[1])
            /\ \A y \in Lists(Tests, MaxLen) :
                    with_new_tests(After(k), None, Some(y))
                        = with_new_tests(Before(k), None,
                                         Some(exclude_tests[1] \o y))
            /\ IsDerivation(Maker(calls[k].self)) =>
                    After(k) = with_new_tests(Before(Maker(calls[k].self)), None,
                                    Some(exclude_tests[1] \o exclude_tests[1]))

\* C10 witness: no exclude_files and an empty list give a present empty
\* list, and a second derivation follows the first
C10_Witness ==
    \E k \in DOMAIN calls :
        /\ IsDerivation(k) /\ run_tests = None
        /\ IsDerivation(Maker(calls[k].self))
        /\ exclude_tests = Some(<<>>)
        /\ Before(Maker(calls[k].self)).selector.exclude_files = None
        /\ Before(k).selector.exclude_files = Some(<<>>)
        /\ After(k).selector.exclude_files = Some(<<>>)

IsParse(k) == calls[k].op = "from_str"

\* the optional fields of the selector and of the executor whose key is the
\* field's name
NamedSelectorFields == OtherSelectorFields \cup {"exclude_files"}

\* C7: every configuration constructed, parsed or derived, is returned by
\* from_str from each text to_string gives for it, equal in every field and
\* in the presence of every optional field; an unset field emits no key,
\* and test_root emits the key of its variant alone among the selector's.
C7_RoundTrip ==
    \A i \in DOMAIN store :
        \A d \in to_string(store[i]) :
            /\ from_str(d) = Ok(store[i])
            /\ \A f \in NamedSelectorFields :
                    store[i].selector[f] = None => d.selector[f] = Absent
            /\ \A f \in ExecutorKeys :
                    store[i].executor[f] = None => d.executor[f] = Absent
            /\ store[i].matrix_suite = None => d.top["matrix_suite"] = Absent
            /\ store[i].description = None => d.top["description"] = Absent
            /\ LET r == store[i].selector.test_root
               IN  /\ r = None =>
                        d.selector["root"] = Absent /\ d.selector["roots"] = Absent
                   /\ (r # None /\ DOMAIN r[1] = {"root"}) =>
                        d.selector["root"] = Str(r[1].root)
                            /\ d.selector["roots"] = Absent
                   /\ (r # None /\ DOMAIN r[1] = {"roots"}) =>
                        d.selector["roots"] = SeqNode(r[1].roots)
                            /\ d.selector["root"] = Absent

\* C7 witness: a derived configuration with Roots and no exclude_files was
\* written by to_string and read again by from_str
C7_Witness ==
    \E k \in DOMAIN calls : \E j \in DOMAIN store :
        /\ IsParse(k) /\ calls[k].ret > j
        /\ IsDerivation(Maker(j))
        /\ calls[k].doc \in to_string(store[j])
        /\ calls[k].doc # calls[1].doc
        /\ store[j].selector.test_root = Some([roots |-> <<"test0.js", "test1.js">>])
        /\ store[j].selector.exclude_files = None
        /\ Before(Maker(j)).selector.exclude_files # None
        /\ store[calls[k].ret] = store[j]

\* the kinds of node each key's type takes
SelectorKinds(k) ==
    CASE k \in {"exclude_tags", "include_tags", "tag_file", "test", "root"} -> {"str"}
      [] k \in {"exclude_files", "exclude_with_any_tags", "include_with_any_tags",
                "include_files", "roots"} -> {"seq"}
      [] k = "group_size" -> {"int"}
      [] k = "group_count_multiplier" -> {"float", "int"}

Mistyped(node, kinds) == ~IsUnset(node) /\ node.kind \notin kinds

\* a required key is missing or no mapping, or a key outside `except` holds
\* a value of another type than its field's
MalformedExcept(doc, except) ==
    \/ doc.top["test_kind"].kind # "str"
    \/ doc.top["selector"].kind # "map"
    \/ doc.top["executor"].kind # "map"
    \/ Mistyped(doc.top["matrix_suite"], {"bool"})
    \/ Mistyped(doc.top["description"], {"str"})
    \/ Mistyped(doc.executor["hooks"], {"seq"})
    \/ \E key \in SelectorKeys \ except :
            Mistyped(doc.selector[key], SelectorKinds(key))

Malformed(doc) == MalformedExcept(doc, {})

Logged(doc) == \E j \in DOMAIN log : log[j] = doc

\* C8: from_str of a text that lacks test_kind, selector or executor, whose
\* selector is no mapping, or that holds a value of another type than a
\* field's, returns an error and logs the text; it returns no configuration.
C8_MalformedIsError ==
    \A k \in DOMAIN calls :
        (IsParse(k) /\ Malformed(calls[k].doc)) =>
            calls[k].ret = 0 /\ Logged(calls[k].doc)

\* what holds of C8 in the code: the same of every key but root and roots
MalformedOutsideTestRootIsError ==
    \A k \in DOMAIN calls :
        (IsParse(k) /\ MalformedExcept(calls[k].doc, {"root", "roots"})) =>
            calls[k].ret = 0 /\ Logged(calls[k].doc)

\* C9: the test_root of every configuration constructed is absent, a Root or
\* a Roots, never both; from_str takes Root where the root key matches, also
\* when roots is there too, and Roots where only roots matches; and a
\* selector with neither key gives an absent test_root, not an error.
C9_TestRootExclusive ==
    /\ \A i \in DOMAIN store :
            LET r == store[i].selector.test_root
            IN  r = None \/ DOMAIN r[1] = {"root"} \/ DOMAIN r[1] = {"roots"}
    /\ \A k \in DOMAIN calls :
            IsParse(k) =>
                LET root == calls[k].doc.selector["root"]
                    roots == calls[k].doc.selector["roots"]
                    ret == calls[k].ret
                IN  /\ (root = Absent /\ roots = Absent /\ ret # 0) =>
                            store[ret].selector.test_root = None
                    /\ (root = Absent /\ roots = Absent /\ ret = 0) =>
                            Malformed(calls[k].doc)
                    /\ (root.kind = "str" /\ ret # 0) =>
                            store[ret].selector.test_root = Some([root |-> root.s])
                    /\ (root = Absent /\ roots.kind = "seq" /\ ret # 0) =>
                            store[ret].selector.test_root = Some([roots |-> roots.l])

\* C9 witness: a text with both a root and roots was parsed to a Root
C9_Witness ==
    \E k \in DOMAIN calls :
        /\ IsParse(k) /\ calls[k].ret # 0
        /\ calls[k].doc.selector["root"] = Str("roots.txt")
        /\ calls[k].doc.selector["roots"].kind = "seq"
        /\ store[calls[k].ret].selector.test_root = Some([root |-> "roots.txt"])

====
